---- MODULE Spec2Model ----
(***************************************************************************)
(* A model of src/main.py: the Kakao chat-bot webhook of a school bot.     *)
(*                                                                         *)
(* Texts are sequences of characters.  Every Hangul syllable is one        *)
(* character, written here by its romanisation ("hak" is the character 학),  *)
(* because module text is ASCII.  Python integers are arbitrary precision   *)
(* and are modelled as sequences of decimal digits without leading zeros   *)
(* (PyInt), so that int() is a real conversion and SQLite's 64-bit INTEGER  *)
(* column can overflow.                                                    *)
(***************************************************************************)
EXTENDS Integers, Sequences, FiniteSets, TLC

VARIABLES
    users,      \* the users table of users.db: kakao_id -> [grade, class]
    today,      \* the KST civil date the clock reads (utcnow() + 9h).date()
    ticks,      \* how many days the clock has advanced
    loop,       \* the request whose handler occupies the event loop thread
    pc,         \* per request: "idle", "ready", "blocked", "done"
    body,       \* per request: the JSON body sent
    result,     \* per request: what the handler did and answered
    dtext,      \* parse_korean_date: argument text
    dbase,      \* parse_korean_date: argument base
    dresult,    \* parse_korean_date: returned date
    dpc         \* parse_korean_date: "call" or "returned"

vars == <<users, today, ticks, loop, pc, body, result, dtext, dbase, dresult, dpc>>

webVars == <<users, today, ticks, loop, pc, body, result>>

dateVars == <<dtext, dbase, dresult, dpc>>

(***************************************************************************)
(* Characters and strings                                                  *)
(***************************************************************************)
Digits == {"0", "1", "2", "3", "4", "5", "6", "7", "8", "9"}

Separators == {".", "/", "-"}

IsDigit(c) == c \in Digits

\* \s of the re module, on the characters of this model
IsSpace(c) == c = " "

\* \w of the re module: digits and Hangul syllables are word characters
IsWord(c) == ~IsSpace(c) /\ c \notin Separators

DigitVal(c) ==
    CASE c = "0" -> 0 [] c = "1" -> 1 [] c = "2" -> 2 [] c = "3" -> 3
      [] c = "4" -> 4 [] c = "5" -> 5 [] c = "6" -> 6 [] c = "7" -> 7
      [] c = "8" -> 8 [] c = "9" -> 9

\* "시간표", "급식", "학사", "일정", "이번 주", "학년/반 변경", "오늘", "내일"
KW_TIMETABLE == <<"si", "gan", "pyo">>

KW_MEAL == <<"geup", "sik">>

KW_HAKSA == <<"hak", "sa">>

KW_ILJEONG == <<"il", "jeong">>

KW_THIS_WEEK == <<"i", "beon", " ", "ju">>

KW_CHANGE == <<"hak", "nyeon", "/", "ban", " ", "byeon", "gyeong">>

KW_TODAY == <<"o", "neul">>

KW_TOMORROW == <<"nae", "il">>

\* "학년", "반", "월", "일"
KW_GRADE == <<"hak", "nyeon">>

KW_CLASS == <<"ban">>

KW_MONTH == <<"wol">>

KW_DAY == <<"il">>

\* s[i..] begins with kw
HasAt(s, i, kw) ==
    /\ i >= 1
    /\ i + Len(kw) - 1 <= Len(s)
    /\ \A k \in 1..Len(kw) : s[i + k - 1] = kw[k]

\* kw in s
Contains(s, kw) == \E i \in 1..Len(s) : HasAt(s, i, kw)

\* s.startswith(kw)
StartsWith(s, kw) == HasAt(s, 1, kw)

\* str.lstrip(), str.rstrip(), str.strip()
RECURSIVE LStrip(_)
LStrip(s) == IF s # <<>> /\ IsSpace(s[1]) THEN LStrip(Tail(s)) ELSE s

RECURSIVE RStrip(_)
RStrip(s) ==
    IF s # <<>> /\ IsSpace(s[Len(s)]) THEN RStrip(SubSeq(s, 1, Len(s) - 1)) ELSE s

Strip(s) == RStrip(LStrip(s))

\* \d+ and \s* at position i: the index after the longest run of digits, and
\* of spaces, that starts there
RECURSIVE DigitsEnd(_, _)
DigitsEnd(s, i) == IF i <= Len(s) /\ IsDigit(s[i]) THEN DigitsEnd(s, i + 1) ELSE i

RECURSIVE SpacesEnd(_, _)
SpacesEnd(s, i) == IF i <= Len(s) /\ IsSpace(s[i]) THEN SpacesEnd(s, i + 1) ELSE i

\* \b at the position before s[i] (i = Len(s) + 1: the end of s)
WordBoundary(s, i) ==
    LET before == i > 1 /\ IsWord(s[i - 1])
        after == i <= Len(s) /\ IsWord(s[i])
    IN  before # after

(***************************************************************************)
(* Python integers: int() of a digit string                                *)
(***************************************************************************)
RECURSIVE StripZeros(_)
StripZeros(ds) ==
    IF Len(ds) > 1 /\ ds[1] = 0 THEN StripZeros(Tail(ds)) ELSE ds

\* int(s) for a non-empty string of digits
PyInt(s) == StripZeros([k \in 1..Len(s) |-> DigitVal(s[k])])

\* the machine integer of a Python int of at most two digits
Small(n) == IF Len(n) = 1 THEN n[1] ELSE 10 * n[1] + n[2]

PyZero == <<0>>

\* 2^63 - 1, the largest value of an SQLite INTEGER
SQLITE_MAX == <<9, 2, 2, 3, 3, 7, 2, 0, 3, 6, 8, 5, 4, 7, 7, 5, 8, 0, 7>>

RECURSIVE DigitsLE(_, _)
DigitsLE(a, b) ==
    IF a = <<>> THEN TRUE
    ELSE IF a[1] # b[1] THEN a[1] < b[1]
    ELSE DigitsLE(Tail(a), Tail(b))

\* a <= b for Python ints
PyLE(a, b) == Len(a) < Len(b) \/ (Len(a) = Len(b) /\ DigitsLE(a, b))

(***************************************************************************)
(* datetime.date                                                           *)
(***************************************************************************)
Date(y, m, d) == [y |-> y, m |-> m, d |-> d]

\* Optional[dt.date]: None
NoDate == Date(0, 0, 0)

IsLeap(y) == y % 4 = 0 /\ (y % 100 # 0 \/ y % 400 = 0)

DaysInMonth(y, m) ==
    IF m = 2 THEN (IF IsLeap(y) THEN 29 ELSE 28)
    ELSE IF m \in {4, 6, 9, 11} THEN 30 ELSE 31

\* dt.date(y, m, d) does not raise ValueError
ValidDate(y, m, d) ==
    /\ y >= 1 /\ y <= 9999
    /\ m >= 1 /\ m <= 12
    /\ d >= 1 /\ d <= DaysInMonth(y, m)

RECURSIVE DaysBeforeMonth(_, _)
DaysBeforeMonth(y, m) ==
    IF m = 1 THEN 0 ELSE DaysBeforeMonth(y, m - 1) + DaysInMonth(y, m - 1)

\* date.toordinal()
Ordinal(dte) ==
    LET p == dte.y - 1
    IN  p * 365 + (p \div 4) - (p \div 100) + (p \div 400)
          + DaysBeforeMonth(dte.y, dte.m) + dte.d

\* date.weekday(): Monday is 0
Weekday(dte) == (Ordinal(dte) + 6) % 7

\* dte + dt.timedelta(days=1)
NextDay(dte) ==
    IF dte.d < DaysInMonth(dte.y, dte.m) THEN Date(dte.y, dte.m, dte.d + 1)
    ELSE IF dte.m < 12 THEN Date(dte.y, dte.m + 1, 1)
    ELSE Date(dte.y + 1, 1, 1)

\* dte - dt.timedelta(days=1)
PrevDay(dte) ==
    IF dte.d > 1 THEN Date(dte.y, dte.m, dte.d - 1)
    ELSE IF dte.m > 1 THEN Date(dte.y, dte.m - 1, DaysInMonth(dte.y, dte.m - 1))
    ELSE Date(dte.y - 1, 12, 31)

RECURSIVE AddDays(_, _)
AddDays(dte, n) ==
    IF n = 0 THEN dte
    ELSE IF n > 0 THEN AddDays(NextDay(dte), n - 1)
    ELSE AddDays(PrevDay(dte), n + 1)

(***************************************************************************)
(* parse_korean_date                                                       *)
(***************************************************************************)
NoMatch == <<>>

\* (\d{1,2}) at position i: the lengths the group can take. The group is
\* greedy: the matcher takes two digits when the rest of the pattern then
\* matches, and one digit otherwise.
GroupLens(s, i) ==
    {k \in {1, 2} : i + k - 1 <= Len(s) /\ \A j \in i..(i + k - 1) : IsDigit(s[j])}

\* (\d{1,2})\s*월\s*(\d{1,2})\s*일 matched at position i: the groups, or NoMatch
MonthDayAt(s, i) ==
    LET cands ==
          {<<k1, k2>> \in GroupLens(s, i) \X {1, 2} :
              LET a == SpacesEnd(s, i + k1)
                  b == SpacesEnd(s, a + 1)
              IN  /\ HasAt(s, a, KW_MONTH)
                  /\ k2 \in GroupLens(s, b)
                  /\ HasAt(s, SpacesEnd(s, b + k2), KW_DAY)}
    IN  IF cands = {} THEN NoMatch
        ELSE LET k1 == IF \E c \in cands : c[1] = 2 THEN 2 ELSE 1
                 k2 == IF <<k1, 2>> \in cands THEN 2 ELSE 1
                 b == SpacesEnd(s, SpacesEnd(s, i + k1) + 1)
             IN  <<PyInt(SubSeq(s, i, i + k1 - 1)), PyInt(SubSeq(s, b, b + k2 - 1))>>

\* \b(\d{1,2})[./-](\d{1,2})\b matched at position i: the groups, or NoMatch
TwoNumberAt(s, i) ==
    LET cands ==
          {<<k1, k2>> \in GroupLens(s, i) \X {1, 2} :
              /\ WordBoundary(s, i)
              /\ i + k1 <= Len(s) /\ s[i + k1] \in Separators
              /\ k2 \in GroupLens(s, i + k1 + 1)
              /\ WordBoundary(s, i + k1 + 1 + k2)}
    IN  IF cands = {} THEN NoMatch
        ELSE LET k1 == IF \E c \in cands : c[1] = 2 THEN 2 ELSE 1
                 k2 == IF <<k1, 2>> \in cands THEN 2 ELSE 1
             IN  <<PyInt(SubSeq(s, i, i + k1 - 1)),
                   PyInt(SubSeq(s, i + k1 + 1, i + k1 + k2))>>

\* \b(20\d{2})[./-](\d{1,2})[./-](\d{1,2})\b matched at position i
ThreeNumberAt(s, i) ==
    LET cands ==
          {<<k2, k3>> \in {1, 2} \X {1, 2} :
              /\ WordBoundary(s, i)
              /\ HasAt(s, i, <<"2", "0">>)
              /\ i + 3 <= Len(s)
              /\ IsDigit(s[i + 2]) /\ IsDigit(s[i + 3])
              /\ i + 4 <= Len(s) /\ s[i + 4] \in Separators
              /\ k2 \in GroupLens(s, i + 5)
              /\ i + 5 + k2 <= Len(s) /\ s[i + 5 + k2] \in Separators
              /\ k3 \in GroupLens(s, i + 6 + k2)
              /\ WordBoundary(s, i + 6 + k2 + k3)}
    IN  IF cands = {} THEN NoMatch
        ELSE LET k2 == IF \E c \in cands : c[1] = 2 THEN 2 ELSE 1
                 k3 == IF <<k2, 2>> \in cands THEN 2 ELSE 1
             IN  <<PyInt(SubSeq(s, i, i + 3)),
                   PyInt(SubSeq(s, i + 5, i + 4 + k2)),
                   PyInt(SubSeq(s, i + 6 + k2, i + 5 + k2 + k3))>>

\* re.search: the match at the leftmost position that has one
MonthDaySearch(s) ==
    LET at == {i \in 1..Len(s) : MonthDayAt(s, i) # NoMatch}
    IN  IF at = {} THEN NoMatch
        ELSE MonthDayAt(s, CHOOSE i \in at : \A j \in at : i <= j)

TwoNumberSearch(s) ==
    LET at == {i \in 1..Len(s) : TwoNumberAt(s, i) # NoMatch}
    IN  IF at = {} THEN NoMatch
        ELSE TwoNumberAt(s, CHOOSE i \in at : \A j \in at : i <= j)

ThreeNumberSearch(s) ==
    LET at == {i \in 1..Len(s) : ThreeNumberAt(s, i) # NoMatch}
    IN  IF at = {} THEN NoMatch
        ELSE ThreeNumberAt(s, CHOOSE i \in at : \A j \in at : i <= j)

\* the year of a 20dd group as a machine integer
Year4(n) == 1000 * n[1] + 100 * n[2] + 10 * n[3] + n[4]

\* try: return dt.date(y, m, d)  except ValueError: return None
DateOrNone(y, m, d) == IF ValidDate(y, m, d) THEN Date(y, m, d) ELSE NoDate

\* lines 94-112: the explicit date patterns, in the order the code tries them
ParseExplicit(t, base) ==
    LET md == MonthDaySearch(t)
        two == TwoNumberSearch(t)
        three == ThreeNumberSearch(t)
    IN  IF md # NoMatch THEN DateOrNone(base.y, Small(md[1]), Small(md[2]))
        ELSE IF two # NoMatch THEN DateOrNone(base.y, Small(two[1]), Small(two[2]))
        ELSE IF three # NoMatch
             THEN DateOrNone(Year4(three[1]), Small(three[2]), Small(three[3]))
        ELSE NoDate

\* the today and tomorrow tokens tried in the wrong order
parse_korean_date_tomorrow_first(text, base) ==
    LET t == Strip(text)
    IN  IF Contains(t, KW_TOMORROW) THEN NextDay(base)
        ELSE IF Contains(t, KW_TODAY) THEN base
        ELSE ParseExplicit(t, base)

parse_korean_date(text, base) ==
    LET t == Strip(text)
    IN  IF Contains(t, KW_TODAY) THEN base
        ELSE IF Contains(t, KW_TOMORROW) THEN NextDay(base)
        ELSE ParseExplicit(t, base)

(***************************************************************************)
(* The date resolver on its own: parse_korean_date(dtext, dbase)           *)
(***************************************************************************)
Sp == <<" ">>

\* "9월 3일", "9월 31일", "2월 29일", "2024-9-3", ...
DateTexts ==
    { KW_TODAY,
      KW_TODAY \o Sp \o KW_TOMORROW,
      KW_TOMORROW \o Sp \o KW_TODAY \o Sp \o KW_MEAL,
      KW_TODAY \o Sp \o <<"9">> \o KW_MONTH \o Sp \o <<"3", "1">> \o KW_DAY,
      KW_TODAY \o Sp \o <<"2", "0", "2", "4", "-", "9", "-", "3">>,
      KW_TOMORROW \o Sp \o KW_TIMETABLE,
      <<"9">> \o KW_MONTH \o Sp \o <<"3">> \o KW_DAY \o Sp \o KW_MEAL,
      <<"9">> \o KW_MONTH \o Sp \o <<"3", "1">> \o KW_DAY,
      <<"2">> \o KW_MONTH \o <<"2", "9">> \o KW_DAY,
      <<"1", "2", "3">> \o KW_MONTH \o <<"4">> \o KW_DAY,
      <<"1", "2", "-", "2", "5">>,
      <<"9", "-", "3">> \o KW_DAY,
      <<"2", "0", "2", "4", "-", "9", "-", "3">>,
      <<"2", "0", "2", "5", ".", "1", "2", ".", "3", "1">>,
      <<"2", "0", "2", "4", "/", "2", "/", "2", "9">> \o Sp \o KW_MEAL,
      <<"2", "0", "2", "5", "-", "9", "-", "3">>,
      <<"1", "9", "9", "9", "-", "9", "-", "3">>,
      <<"2", "0", "2", "4", "-", "1", "3", "-", "1">>,
      Sp \o KW_MEAL \o Sp,
      <<>> }

BaseDates ==
    { Date(2024, 2, 28), Date(2024, 12, 31), Date(2025, 2, 28),
      Date(2025, 9, 5), Date(2025, 12, 30) }

DateInit ==
    /\ dtext \in DateTexts
    /\ dbase \in BaseDates
    /\ dresult = NoDate
    /\ dpc = "call"

\* one call of parse_korean_date with an explicit base
Resolve ==
    /\ dpc = "call"
    /\ dresult' = parse_korean_date(dtext, dbase)
    /\ dpc' = "returned"
    /\ UNCHANGED <<dtext, dbase>>

(***************************************************************************)
(* The users table (get_user, set_user)                                    *)
(***************************************************************************)
EmptyTable == [k \in {} |-> 0]

Profile(g, c) == [grade |-> g, class |-> c]

\* Optional[Dict]: None
NoUser == Profile(<<>>, <<>>)

\* SELECT grade, class FROM users WHERE kakao_id=?
get_user(tbl, kakao_id) ==
    IF kakao_id \in DOMAIN tbl THEN tbl[kakao_id] ELSE NoUser

\* sqlite3 binds a Python int as a 64-bit INTEGER and raises OverflowError
\* for a larger one; the numbers of an utterance are never negative
Binds(n) == PyLE(n, SQLITE_MAX)

\* INSERT OR IGNORE: the row of a kakao_id that has one is kept
set_user_keep_existing(tbl, kakao_id, grade, clas) ==
    [k \in DOMAIN tbl \cup {kakao_id} |->
        IF k \in DOMAIN tbl THEN tbl[k] ELSE Profile(grade, clas)]

\* INSERT OR REPLACE INTO users (kakao_id, grade, class) VALUES (?, ?, ?)
set_user(tbl, kakao_id, grade, clas) ==
    [k \in DOMAIN tbl \cup {kakao_id} |->
        IF k = kakao_id THEN Profile(grade, clas) ELSE tbl[k]]

(***************************************************************************)
(* The patterns of the webhook                                             *)
(***************************************************************************)
\* re.match(r"(\d+)\s*학년\s*(\d+)반", t): the groups, or NoMatch
GradeClassMatch(t) ==
    LET a == DigitsEnd(t, 1)
        b == SpacesEnd(t, a)
        c == SpacesEnd(t, b + Len(KW_GRADE))
        d == DigitsEnd(t, c)
    IN  IF /\ a > 1
           /\ HasAt(t, b, KW_GRADE)
           /\ d > c
           /\ HasAt(t, d, KW_CLASS)
        THEN <<PyInt(SubSeq(t, 1, a - 1)), PyInt(SubSeq(t, c, d - 1))>>
        ELSE NoMatch

\* re.fullmatch(r"\d+\s+\d+", t)
IsBarePair(t) ==
    LET a == DigitsEnd(t, 1)
        b == SpacesEnd(t, a)
        c == DigitsEnd(t, b)
    IN  a > 1 /\ b > a /\ c > b /\ c = Len(t) + 1

\* g, c = map(int, t.split()) for a t that IsBarePair
BarePairValues(t) ==
    LET a == DigitsEnd(t, 1)
        b == SpacesEnd(t, a)
    IN  <<PyInt(SubSeq(t, 1, a - 1)), PyInt(SubSeq(t, b, Len(t)))>>

\* the profile test that lets every user through
NotRegisteredNever(user) == FALSE

\* if not user
NotRegistered(user) == user = NoUser

\* the content keywords tried with the meal before the timetable
IntentMealFirst(t) ==
    IF Contains(t, KW_MEAL) THEN "meal"
    ELSE IF Contains(t, KW_TIMETABLE) THEN "timetable"
    ELSE IF Contains(t, KW_HAKSA) \/ Contains(t, KW_ILJEONG) THEN "calendar"
    ELSE "fallback"

\* lines 396-427: the content keywords, in the order the code tries them
Intent(t) ==
    IF Contains(t, KW_TIMETABLE) THEN "timetable"
    ELSE IF Contains(t, KW_MEAL) THEN "meal"
    ELSE IF Contains(t, KW_HAKSA) \/ Contains(t, KW_ILJEONG) THEN "calendar"
    ELSE "fallback"

\* a weekend test that lets Saturday through
IsWeekendSundayOnly(target_date) == Weekday(target_date) >= 6

\* weekday >= 5
IsWeekend(target_date) == Weekday(target_date) >= 5

\* delta_weeks = ((target_date - today).days) // 7; max(0, min(1, delta_weeks))
WeekNum(target_date, now) ==
    LET delta_weeks == (Ordinal(target_date) - Ordinal(now)) \div 7
    IN  IF delta_weeks < 0 THEN 0 ELSE IF delta_weeks > 1 THEN 1 ELSE delta_weeks

\* parse_korean_date(t) or (dt.datetime.utcnow() + dt.timedelta(hours=9)).date()
TargetDate(t, now) ==
    LET parsed == parse_korean_date(t, now)
    IN  IF parsed # NoDate THEN parsed ELSE now

(***************************************************************************)
(* The calendar (ACADEMIC_SCHEDULE, fetch_calendar_items)                  *)
(***************************************************************************)
\* ACADEMIC_SCHEDULE holds one row for every day from 2025-09-01 to 2025-12-31
SCHEDULE_FIRST == Date(2025, 9, 1)

SCHEDULE_LAST == Date(2025, 12, 31)

Max(a, b) == IF a >= b THEN a ELSE b

Min(a, b) == IF a <= b THEN a ELSE b

\* len(fetch_calendar_items(start, end)): the rows with start <= d <= end
fetch_calendar_items(start, end) ==
    Max(0, Min(Ordinal(end), Ordinal(SCHEDULE_LAST))
             - Max(Ordinal(start), Ordinal(SCHEDULE_FIRST)) + 1)

\* format_week_range(day): Monday to Sunday of the week of day
format_week_range(day) ==
    LET start == AddDays(day, 0 - Weekday(day))
    IN  <<start, AddDays(start, 6)>>

\* month_start and month_end of lines 416-418
month_range(day) ==
    <<Date(day.y, day.m, 1), Date(day.y, day.m, DaysInMonth(day.y, day.m))>>

(***************************************************************************)
(* Requests, bodies and replies                                            *)
(***************************************************************************)
Reqs == {"r1", "r2"}

NoReq == "none"

UserIds == {"u1", "u2"}

FirstUser == "u1"

\* body.get("userRequest", {}).get("user", {}).get("id") of a body without one
NoId == ""

\* how many days the clock may advance
MaxTicks == 2

\* a Saturday; the Monday after it is the first day of ACADEMIC_SCHEDULE
StartDate == Date(2025, 8, 30)

\* "3 5", "9 99", "0 0", "03  5 ", "9223372036854775808 1"
RegistrationTexts ==
    { <<"3", " ", "5">>,
      <<"9", " ", "9", "9">>,
      <<"0", " ", "0">>,
      <<"0", "3", " ", " ", "5", " ">>,
      <<"9", "2", "2", "3", "3", "7", "2", "0", "3", "6", "8", "5", "4", "7",
        "7", "5", "8", "0", "8", " ", "1">>,
      \* "3학년 5반", "0학년 0반"
      <<"3">> \o KW_GRADE \o Sp \o <<"5">> \o KW_CLASS,
      <<"0">> \o KW_GRADE \o Sp \o <<"0">> \o KW_CLASS }

\* "학년/반 변경", "학년/반 변경 시간표", "학년변경 9 99"
CommandTexts ==
    { KW_CHANGE,
      KW_CHANGE \o Sp \o KW_TIMETABLE,
      <<"hak", "nyeon", "byeon", "gyeong", " ", "9", " ", "9", "9">> }

\* "오늘 시간표", "내일 시간표", "시간표", "9월 6일 시간표", "9월 31일 시간표",
\* "오늘 시간표 급식", "오늘 급식", "이번 주 학사일정", "일정", "안녕"
ContentTexts ==
    { KW_TODAY \o Sp \o KW_TIMETABLE,
      KW_TOMORROW \o Sp \o KW_TIMETABLE,
      KW_TIMETABLE,
      <<"9">> \o KW_MONTH \o Sp \o <<"6">> \o KW_DAY \o Sp \o KW_TIMETABLE,
      <<"9">> \o KW_MONTH \o Sp \o <<"3", "1">> \o KW_DAY \o Sp \o KW_TIMETABLE,
      KW_TODAY \o Sp \o KW_TIMETABLE \o Sp \o KW_MEAL,
      KW_TODAY \o Sp \o KW_MEAL,
      KW_THIS_WEEK \o Sp \o KW_HAKSA \o KW_ILJEONG,
      KW_ILJEONG,
      <<"an", "nyeong">> }

\* what the second user sends: "9 99", "내일 시간표", "오늘 급식", "안녕"
OtherUserTexts ==
    { <<"9", " ", "9", "9">>,
      KW_TOMORROW \o Sp \o KW_TIMETABLE,
      KW_TODAY \o Sp \o KW_MEAL,
      <<"an", "nyeong">> }

Utterances == RegistrationTexts \cup CommandTexts \cup ContentTexts

Body(shape, id, utterance) == [shape |-> shape, id |-> id, utterance |-> utterance]

NoBody == Body("none", NoId, <<>>)

\* the JSON bodies a client sends: an object with a user id and an utterance,
\* an object without a user id, and a JSON array
Bodies ==
    {Body("object", FirstUser, t) : t \in Utterances}
        \cup {Body("object", u, t) : u \in UserIds \ {FirstUser}, t \in OtherUserTexts}
        \cup {Body("object", NoId, t) : t \in {<<"3", " ", "5">>, KW_TODAY \o Sp \o KW_MEAL}}
        \cup {Body("array", NoId, <<>>)}

\* what a handler has done and answered so far
NoResult ==
    [ status |-> "none",      \* "reply": a payload is returned; "fault": an exception escapes
      msg |-> "",             \* which text the payload carries
      text |-> "",            \* the provider's text inside it
      quick |-> FALSE,        \* the payload has quickReplies
      looked |-> FALSE,       \* get_user was called
      found |-> FALSE,        \* get_user returned a profile
      args |-> <<>>,          \* the grade and class a registration names
      called |-> {},          \* the provider functions called
      contacted |-> {},       \* the external services contacted
      target |-> NoDate,      \* the target date of a lookup
      week |-> 0 ]            \* week_num passed to TimeTable

\* kakao_simple_text(text, qr_default())
Reply(res, msg) == [res EXCEPT !.status = "reply", !.msg = msg, !.quick = TRUE]

\* kakao_simple_text(text)
ReplyNoQuick(res, msg) == [res EXCEPT !.status = "reply", !.msg = msg]

Outcome(next, tbl, res) == [next |-> next, users |-> tbl, result |-> res]

\* lines 383-386 and 388-391: set_user, then the confirmation
Register(tbl, user_id, res, gc) ==
    IF Binds(gc[1]) /\ Binds(gc[2])
    THEN Outcome("done", set_user(tbl, user_id, gc[1], gc[2]),
                 Reply([res EXCEPT !.args = gc], "registered"))
    ELSE Outcome("done", tbl, [res EXCEPT !.status = "fault", !.args = gc])

\* lines 396-399, up to the call of TimeTable
Timetable(tbl, res, t, now) ==
    LET target == TargetDate(t, now)
        r1 == [res EXCEPT !.called = {"fetch_timetable_text"}, !.target = target]
    IN  IF IsWeekend(target)
        THEN Outcome("done", tbl, Reply([r1 EXCEPT !.text = "weekend"], "timetable"))
        ELSE Outcome("blocked", tbl,
                     [r1 EXCEPT !.contacted = {"comcigan"},
                                !.week = WeekNum(target, now)])

\* lines 401-404, up to requests.get
Meal(tbl, res, t, now) ==
    Outcome("blocked", tbl,
            [res EXCEPT !.called = {"fetch_meal_text"},
                        !.target = TargetDate(t, now),
                        !.contacted = {"koreacharts"}])

\* lines 406-422
Calendar(tbl, res, t, now) ==
    LET week == Contains(t, KW_THIS_WEEK)
        range == IF week THEN format_week_range(now) ELSE month_range(now)
        items == fetch_calendar_items(range[1], range[2])
        r1 == [res EXCEPT !.called = {"fetch_calendar_items"}]
    IN  IF items = 0
        THEN Outcome("done", tbl,
                     Reply(r1, IF week THEN "no_week_events" ELSE "no_month_events"))
        ELSE Outcome("done", tbl,
                     Reply([r1 EXCEPT !.text = "items"],
                           IF week THEN "week_events" ELSE "month_events"))

\* webhook, from the request body to its return or to its blocking provider call
webhook(b, tbl, now) ==
    IF b.shape # "object" THEN Outcome("done", tbl, Reply(NoResult, "parse_failed"))
    ELSE IF b.id = NoId THEN Outcome("done", tbl, Reply(NoResult, "no_user_id"))
    ELSE
      LET user_id == b.id
          t == Strip(b.utterance)
          user == get_user(tbl, user_id)
          res == [NoResult EXCEPT !.looked = TRUE, !.found = (user # NoUser)]
          intent == Intent(t)
      IN  IF StartsWith(t, KW_CHANGE)
          THEN Outcome("done", tbl, ReplyNoQuick(res, "change_prompt"))
          ELSE IF GradeClassMatch(t) # NoMatch
          THEN Register(tbl, user_id, res, GradeClassMatch(t))
          ELSE IF IsBarePair(t)
          THEN Register(tbl, user_id, res, BarePairValues(t))
          ELSE IF NotRegistered(user)
          THEN Outcome("done", tbl, Reply(res, "onboarding"))
          ELSE IF intent = "timetable" THEN Timetable(tbl, res, t, now)
          ELSE IF intent = "meal" THEN Meal(tbl, res, t, now)
          ELSE IF intent = "calendar" THEN Calendar(tbl, res, t, now)
          ELSE Outcome("done", tbl, Reply(res, "help"))

\* what TimeTable(...) and the code after it produce (lines 127-159)
TimetableTexts == {"listing", "no_class_timetable", "no_lessons", "timetable_failure"}

\* what requests.get and the code after it produce (lines 170-199)
MealTexts == {"menu", "no_meal_info", "meal_failure"}

(***************************************************************************)
(* Actions                                                                 *)
(***************************************************************************)
Init ==
    /\ users = EmptyTable
    /\ today = StartDate
    /\ ticks = 0
    /\ loop = NoReq
    /\ pc = [r \in Reqs |-> "idle"]
    /\ body = [r \in Reqs |-> NoBody]
    /\ result = [r \in Reqs |-> NoResult]
    /\ dtext = <<>>
    /\ dbase = NoDate
    /\ dresult = NoDate
    /\ dpc = "off"

\* midnight in KST
Tick ==
    /\ ticks < MaxTicks
    /\ ticks' = ticks + 1
    /\ today' = NextDay(today)
    /\ UNCHANGED <<users, loop, pc, body, result>>

\* a client posts a body to /webhook; the request waits for the event loop
Arrive(r) ==
    /\ pc[r] = "idle"
    /\ pc' = [pc EXCEPT ![r] = "ready"]
    /\ \E b \in Bodies : body' = [body EXCEPT ![r] = b]
    /\ UNCHANGED <<users, today, ticks, loop, result>>

\* the event loop runs the handler of r. Its only await is the read of the
\* body it starts with; from there it runs on the loop's thread to its return,
\* or into a provider call that blocks that thread. The handler reads the
\* clock several times within one run; they are one reading here.
Run(r) ==
    /\ pc[r] = "ready"
    /\ loop = NoReq
    /\ \E out \in {webhook(body[r], users, today)} :
           /\ users' = out.users
           /\ result' = [result EXCEPT ![r] = out.result]
           /\ pc' = [pc EXCEPT ![r] = out.next]
           /\ loop' = IF out.next = "blocked" THEN r ELSE NoReq
    /\ UNCHANGED <<today, ticks, body>>

\* the provider call of r returns or raises; the handler returns its reply
ProviderReturn(r) ==
    /\ pc[r] = "blocked"
    /\ loop = r
    /\ \/ /\ result[r].called = {"fetch_timetable_text"}
          /\ \E text \in TimetableTexts :
                result' = [result EXCEPT ![r] = Reply([@ EXCEPT !.text = text], "timetable")]
       \/ /\ result[r].called = {"fetch_meal_text"}
          /\ \E text \in MealTexts :
                result' = [result EXCEPT ![r] = Reply([@ EXCEPT !.text = text], "meal")]
    /\ pc' = [pc EXCEPT ![r] = "done"]
    /\ loop' = NoReq
    /\ UNCHANGED <<users, today, ticks, body>>

\* the response of r has been sent
Deliver(r) ==
    /\ pc[r] = "done"
    /\ pc' = [pc EXCEPT ![r] = "idle"]
    /\ body' = [body EXCEPT ![r] = NoBody]
    /\ result' = [result EXCEPT ![r] = NoResult]
    /\ UNCHANGED <<users, today, ticks, loop>>

Next ==
    \/ Tick /\ UNCHANGED dateVars
    \/ \E r \in Reqs : Arrive(r) /\ UNCHANGED dateVars
    \/ \E r \in Reqs : Run(r) /\ UNCHANGED dateVars
    \/ \E r \in Reqs : ProviderReturn(r) /\ UNCHANGED dateVars
    \/ \E r \in Reqs : Deliver(r) /\ UNCHANGED dateVars

Spec == Init /\ [][Next]_vars

DateSpecInit ==
    /\ DateInit
    /\ users = EmptyTable
    /\ today = StartDate
    /\ ticks = 0
    /\ loop = NoReq
    /\ pc = [r \in Reqs |-> "idle"]
    /\ body = [r \in Reqs |-> NoBody]
    /\ result = [r \in Reqs |-> NoResult]

DateNext == Resolve /\ UNCHANGED webVars

DateSpec == DateSpecInit /\ [][DateNext]_vars

(***************************************************************************)
(* Vocabulary of the properties                                            *)
(***************************************************************************)
\* the utterance of request r as the handler reads it
TextOf(r) == Strip(body[r].utterance)

\* the body of r names a user
Identified(r) == body[r].shape = "object" /\ body[r].id # NoId

\* t matches one of the three patterns the handler tests before the profile
RegistrationPattern(t) ==
    StartsWith(t, KW_CHANGE) \/ GradeClassMatch(t) # NoMatch \/ IsBarePair(t)

\* this step is the handler of r leaving the ready state
Handled(r) == pc[r] = "ready" /\ pc'[r] # "ready"

\* "학년변경 9 99" and "9 99"
CHANGE_9_99 == <<"hak", "nyeon", "byeon", "gyeong", " ", "9", " ", "9", "9">>

BARE_9_99 == <<"9", " ", "9", "9">>

Profile_9_99 == Profile(<<9>>, <<9, 9>>)

(***************************************************************************)
(* C1. A bare pair "g c" from any user id upserts (g, c) for that id and   *)
(* leaves every other profile as it was, so that get_user(id) is the most  *)
(* recent registration of id.                                              *)
(***************************************************************************)
C1_BarePairUpserts ==
    [][\A r \in Reqs :
         (Handled(r) /\ Identified(r) /\ IsBarePair(TextOf(r)))
           => LET gc == BarePairValues(TextOf(r))
              IN  /\ DOMAIN users' = DOMAIN users \cup {body[r].id}
                  /\ users'[body[r].id] = Profile(gc[1], gc[2])
                  /\ \A k \in DOMAIN users \ {body[r].id} : users'[k] = users[k]]_vars

(***************************************************************************)
(* C2, as claimed. With a profile on file, "학년변경 9 99" is a registration: *)
(* the registry then holds (9, 99) for the id and the reply confirms it.    *)
(***************************************************************************)
C2_ChangeWordRegisters ==
    [][\A r \in Reqs :
         (Handled(r) /\ Identified(r) /\ body[r].id \in DOMAIN users
            /\ body[r].utterance = CHANGE_9_99)
           => /\ users'[body[r].id] = Profile_9_99
              /\ result'[r].msg = "registered"]_vars

(***************************************************************************)
(* C2, amended. With a profile on file, "학년변경 9 99" matches none of the   *)
(* registration patterns: the registry is unchanged and the fallback help  *)
(* text is returned. The bare pair "9 99" is what overwrites the profile    *)
(* with (9, 99) and gets the confirmation.                                 *)
(***************************************************************************)
C2_ChangeWordFallsBack ==
    [][\A r \in Reqs :
         (Handled(r) /\ Identified(r) /\ body[r].id \in DOMAIN users)
           => /\ body[r].utterance = CHANGE_9_99
                   => /\ users' = users
                      /\ pc'[r] = "done"
                      /\ result'[r].status = "reply"
                      /\ result'[r].msg = "help"
              /\ body[r].utterance = BARE_9_99
                   => /\ DOMAIN users' = DOMAIN users
                      /\ users'[body[r].id] = Profile_9_99
                      /\ \A k \in DOMAIN users \ {body[r].id} : users'[k] = users[k]
                      /\ pc'[r] = "done"
                      /\ result'[r].status = "reply"
                      /\ result'[r].msg = "registered"]_vars

\* a registered user has sent "학년변경 9 99" and has the help text back
C2_Witness ==
    \E r \in Reqs :
        /\ pc[r] = "done"
        /\ body[r].utterance = CHANGE_9_99
        /\ result[r].found
        /\ result[r].msg = "help"

(***************************************************************************)
(* C3. Every stored profile has grade >= 1 and classNumber >= 1.           *)
(***************************************************************************)
C3_ProfilesPositive ==
    \A id \in DOMAIN users : users[id].grade # PyZero /\ users[id].class # PyZero

(***************************************************************************)
(* C4. A provider is called for a request only if get_user found a profile *)
(* for its user id; a user without a profile whose utterance matches no    *)
(* registration pattern gets the onboarding prompt, no provider is called  *)
(* and the registry is unchanged.                                          *)
(***************************************************************************)
C4_ProfileGatesProviders ==
    /\ [](\A r \in Reqs :
            (result[r].called # {} \/ result[r].contacted # {})
              => result[r].looked /\ result[r].found)
    /\ [][\A r \in Reqs :
            (Handled(r) /\ Identified(r) /\ body[r].id \notin DOMAIN users
               /\ ~RegistrationPattern(TextOf(r)))
              => /\ pc'[r] = "done"
                 /\ result'[r].status = "reply"
                 /\ result'[r].msg = "onboarding"
                 /\ result'[r].called = {}
                 /\ result'[r].contacted = {}
                 /\ users' = users]_vars

\* a user without a profile has asked for today's timetable
C4_Witness ==
    \E r \in Reqs :
        /\ pc[r] = "done"
        /\ body[r].utterance = KW_TODAY \o Sp \o KW_TIMETABLE
        /\ result[r].looked /\ ~result[r].found
        /\ result[r].msg = "onboarding"

(***************************************************************************)
(* C5. Every request ends in a reply payload with a text; no fault reaches *)
(* the transport layer.                                                    *)
(***************************************************************************)
C5_AlwaysReplies ==
    \A r \in Reqs :
        pc[r] = "done" => result[r].status = "reply" /\ result[r].msg # ""

(***************************************************************************)
(* C6. While the provider call of one request is blocked on the network,   *)
(* another request in flight can be started.                               *)
(***************************************************************************)
C6_NoGlobalSerialization ==
    \A r \in Reqs, q \in Reqs :
        (pc[r] = "blocked" /\ pc[q] = "ready") => ENABLED Run(q)

(***************************************************************************)
(* C7. A timetable request whose target date is a Saturday or a Sunday is  *)
(* answered with the weekend text, and the timetable service is not        *)
(* contacted.                                                              *)
(***************************************************************************)
C7_WeekendWithoutProvider ==
    \A r \in Reqs :
        ("fetch_timetable_text" \in result[r].called
           /\ Weekday(result[r].target) \in {5, 6})
          => /\ pc[r] = "done"
             /\ result[r].status = "reply"
             /\ result[r].msg = "timetable"
             /\ result[r].text = "weekend"
             /\ result[r].contacted = {}

\* "내일 시간표" sent on a Saturday: the target is the Sunday
C7_Witness ==
    \E r \in Reqs :
        /\ pc[r] = "done"
        /\ body[r].utterance = KW_TOMORROW \o Sp \o KW_TIMETABLE
        /\ result[r].called = {"fetch_timetable_text"}
        /\ Weekday(result[r].target) = 6
        /\ result[r].text = "weekend"

(***************************************************************************)
(* C8. A text without a today or tomorrow token and without a "<m>월 <d>일" *)
(* pattern that holds a pattern YYYY-M-D with YYYY >= 2000 resolves to the  *)
(* date (YYYY, M, D), with the year of the text.                           *)
(***************************************************************************)
C8_YearFromText ==
    LET t == Strip(dtext)
        ymd == ThreeNumberSearch(t)
    IN  (/\ dpc = "returned"
         /\ ~Contains(t, KW_TODAY) /\ ~Contains(t, KW_TOMORROW)
         /\ MonthDaySearch(t) = NoMatch
         /\ ymd # NoMatch
         /\ ValidDate(Year4(ymd[1]), Small(ymd[2]), Small(ymd[3])))
          => dresult = Date(Year4(ymd[1]), Small(ymd[2]), Small(ymd[3]))

(***************************************************************************)
(* C9. For a registered user and an utterance that matches no registration *)
(* pattern, the first of timetable, meal, calendar, fallback whose keyword *)
(* the utterance holds is the one intent handled, and at most one provider *)
(* is called.                                                              *)
(***************************************************************************)
C9_FirstKeywordWins ==
    \A r \in Reqs :
        (pc[r] \in {"blocked", "done"} /\ Identified(r) /\ result[r].found
           /\ ~RegistrationPattern(TextOf(r)))
          => LET t == TextOf(r)
                 expected ==
                   IF Contains(t, KW_TIMETABLE) THEN <<{"fetch_timetable_text"}, {"timetable"}>>
                   ELSE IF Contains(t, KW_MEAL) THEN <<{"fetch_meal_text"}, {"meal"}>>
                   ELSE IF Contains(t, KW_HAKSA) \/ Contains(t, KW_ILJEONG)
                        THEN <<{"fetch_calendar_items"},
                               {"week_events", "no_week_events",
                                "month_events", "no_month_events"}>>
                   ELSE <<{}, {"help"}>>
             IN  /\ Cardinality(result[r].called) <= 1
                 /\ result[r].called = expected[1]
                 /\ pc[r] = "done" => result[r].msg \in expected[2]
                 /\ expected[1] = {} => pc[r] = "done" /\ result[r].contacted = {}

\* a registered user has sent "오늘 시간표 급식": only the timetable was looked up
C9_Witness ==
    \E r \in Reqs :
        /\ pc[r] = "done"
        /\ body[r].utterance = KW_TODAY \o Sp \o KW_TIMETABLE \o Sp \o KW_MEAL
        /\ result[r].found
        /\ result[r].called = {"fetch_timetable_text"}
        /\ result[r].msg = "timetable"

(***************************************************************************)
(* C10. A text that holds the today token resolves to the reference date,  *)
(* whatever else it holds.                                                 *)
(***************************************************************************)
C10_TodayWins ==
    (dpc = "returned" /\ Contains(dtext, KW_TODAY)) => dresult = dbase

\* "내일 오늘 급식" has been resolved
C10_Witness ==
    /\ dpc = "returned"
    /\ Contains(dtext, KW_TODAY) /\ Contains(dtext, KW_TOMORROW)
    /\ dresult = dbase

====
